---- MODULE Spec2Model ----
(***************************************************************************)
(* Model of the RDK data validator, src/Analysis/test_data.py, and of its   *)
(* earlier revision src/Analysis/output_test.py, which differs in the      *)
(* trials the median is taken over and in how a main label is compared.    *)
(*                                                                         *)
(* Coherence values are held as integers in units of 0.0001, the           *)
(* granularity of the code's round(x, 4): 0.2 is 2000 and the 0.01 step is *)
(* 100.  Accuracies are held in units of 0.001 percent, the granularity of *)
(* round(x, 3).  Python's None is the empty tuple <<>>; a threshold pair   *)
(* is the tuple <<kLow, kHigh>>.                                           *)
(***************************************************************************)
EXTENDS Integers, Sequences, FiniteSets, TLC

VARIABLES
    revision,    \* the script that runs: "test_data" or "output_test"
    df,          \* training group handed to validate_training_coherence
    idx,         \* number of rows of df the loop has gone through
    c_estimate,  \* the replayed estimate
    prev_c,      \* coherence of the previous row
    prev_acc,    \* <<>> (None) or <<correct_selection of the previous row>>
    c_vals,      \* coherences collected so far
    kMed,        \* clamped median (0 until computed)
    c_pair,      \* <<>> (None) or <<kLow, kHigh>>
    pc,          \* position in validate_training_coherence
    m_df,        \* main group handed to validate_main_coherences
    main_result, \* outcome of validate_main_coherences
    file_i,      \* start: number of files gone through
    results_df,  \* start: the session read from the current file
    data_struct, \* start: the rows collected so far
    output,      \* <<>> until output.csv is written, then <<the table>>
    s_pc,        \* position in start and run_results
    groups,      \* run_results: the selected groups, as row positions
    cat,         \* run_results: the category being validated
    pairs,       \* run_results: what each training validation returned
    main_results, \* run_results: how each main validation ended
    accs,        \* run_results: the accuracies, once computed
    exc          \* the exception that ended the run, or "none"

catVars == <<df, idx, c_estimate, prev_c, prev_acc, c_vals, kMed, c_pair, pc,
             m_df, main_result>>

sessVars == <<file_i, results_df, data_struct, output, s_pc, groups, cat, pairs,
              main_results, accs, exc>>

vars == <<revision, df, idx, c_estimate, prev_c, prev_acc, c_vals, kMed, c_pair, pc,
          m_df, main_result, file_i, results_df, data_struct, output, s_pc,
          groups, cat, pairs, main_results, accs, exc>>

---------------------------------------------------------------------------
(* Program constants, in units of 0.0001 *)

InitEstimate == 2000
Step == 100
ClampLow == 1200
ClampHigh == 5000
Window == 20

(* Bounds of the model *)

MaxTrials == 4
MaxRecords == 3
MaxVals == 4
MaxLong == 44
MaxMisses == 2
NumFiles == 3

None == <<>>

Revisions == {"test_data", "output_test"}

---------------------------------------------------------------------------
(* Arithmetic helpers *)

\* n / d rounded to the nearest integer, an exact tie going to the even one
\* (round() on a value whose tie is exactly representable).
RoundHalfEven(n, d) ==
    LET q == n \div d
        r == n % d
    IN  IF 2 * r > d THEN q + 1
        ELSE IF 2 * r < d THEN q
        ELSE IF q % 2 = 0 THEN q ELSE q + 1

\* The x.xx5 values of [0, 1] whose binary double lies above the decimal tie
\* (in units of 0.0001); round(x, 2) takes these up and the others down.
\* 0.125, 0.375, 0.625 and 0.875 are exact doubles and go to the even side.
TiesRoundedUp ==
    { 50, 250, 350, 550, 650, 850, 950, 1150, 1350, 1650, 1950, 2250, 2550,
      2650, 2750, 3150, 3250, 3350, 3750, 3850, 3950, 4050, 4450, 4550, 4650,
      5050, 5150, 5250, 5350, 5450, 5550, 6350, 6450, 6550, 6650, 6750, 6850,
      7550, 7650, 7750, 7850, 7950, 8050, 8750, 8850, 8950, 9050, 9150, 9250,
      9350 }

\* round(x, 2) of a float x in [0, 1] given in units of 0.0001; the result is
\* in units of 0.01.
Round2(x) ==
    LET q == x \div 100
        r == x % 100
    IN  IF r > 50 THEN q + 1
        ELSE IF r < 50 THEN q
        ELSE IF x \in TiesRoundedUp THEN q + 1 ELSE q

Reverse(s) == [i \in 1..Len(s) |-> s[Len(s) + 1 - i]]

Take(s, n) == IF Len(s) <= n THEN s ELSE SubSeq(s, 1, n)

\* The number of elements of s that are smaller than, or equal and earlier
\* than, s[i]: the position of s[i] in sorted(s).
Rank(s, i) ==
    Cardinality({j \in 1..Len(s) : s[j] < s[i] \/ (s[j] = s[i] /\ j < i)}) + 1

Sorted(s) == [k \in 1..Len(s) |-> s[CHOOSE i \in 1..Len(s) : Rank(s, i) = k]]

\* Twice statistics.median(s) for a non-empty s: the middle element, or the
\* mean of the two middle ones.
Median2(s) ==
    LET n == Len(s)
        t == Sorted(s)
    IN  IF n % 2 = 1 THEN 2 * t[(n + 1) \div 2]
        ELSE t[n \div 2] + t[n \div 2 + 1]

SeqsUpTo(S, n) == UNION {[1..k -> S] : k \in 0..n}

---------------------------------------------------------------------------
(* validate_training_coherence: the staircase replay *)

\* Variant: two correct rows in a row lower the estimate whatever their
\* coherences.
NextEstimateAnyRepeat(est, p_acc, p_c, curr_acc, curr_c) ==
    IF curr_acc = FALSE
    THEN est + Step
    ELSE IF p_acc # None /\ p_acc[1] = TRUE
         THEN est - Step
         ELSE est

\* Variant: the two directions of the staircase are exchanged.
NextEstimateSignFlip(est, p_acc, p_c, curr_acc, curr_c) ==
    IF curr_acc = FALSE
    THEN est - Step
    ELSE IF p_acc # None /\ p_acc[1] = TRUE /\ curr_c = p_c
         THEN est + Step
         ELSE est

\* Variant: the estimate is not lowered below zero.
NextEstimateFloored(est, p_acc, p_c, curr_acc, curr_c) ==
    IF curr_acc = FALSE
    THEN est + Step
    ELSE IF p_acc # None /\ p_acc[1] = TRUE /\ curr_c = p_c
         THEN IF est - Step < 0 THEN est ELSE est - Step
         ELSE est

\* The update of c_estimate for one validated row.
NextEstimate(est, p_acc, p_c, curr_acc, curr_c) ==
    IF curr_acc = FALSE
    THEN est + Step
    ELSE IF p_acc # None /\ p_acc[1] = TRUE /\ curr_c = p_c
         THEN est - Step
         ELSE est

\* The state before the first row.
ReplayInit(group) ==
    /\ df = group
    /\ idx = 0
    /\ c_estimate = InitEstimate
    /\ prev_c = InitEstimate
    /\ prev_acc = None
    /\ c_vals = <<>>
    /\ kMed = 0
    /\ c_pair = None
    /\ pc = "loop"

\* Variant: a mismatching row is skipped and the loop goes on.
IterRowSkipsMismatch ==
    /\ pc = "loop"
    /\ idx < Len(df)
    /\ LET row == df[idx + 1]
           curr_acc == row.correct_selection
           curr_c == row.coherence
       IN  IF curr_c # c_estimate
           THEN /\ idx' = idx + 1
                /\ UNCHANGED <<pc, c_estimate, prev_c, prev_acc, c_vals>>
           ELSE /\ c_estimate' =
                       NextEstimate(c_estimate, prev_acc, prev_c, curr_acc, curr_c)
                /\ c_vals' = Append(c_vals, curr_c)
                /\ prev_acc' = <<curr_acc>>
                /\ prev_c' = curr_c
                /\ idx' = idx + 1
                /\ pc' = "loop"
    /\ UNCHANGED <<df, kMed, c_pair, m_df, main_result>>
    /\ UNCHANGED <<sessVars, revision>>

\* One pass of the loop body: the row is checked against the estimate; a
\* mismatch returns None at once, a match updates the state.
IterRow ==
    /\ pc = "loop"
    /\ idx < Len(df)
    /\ LET row == df[idx + 1]
           curr_acc == row.correct_selection
           curr_c == row.coherence
       IN  IF curr_c # c_estimate
           THEN /\ pc' = "failed"
                /\ UNCHANGED <<idx, c_estimate, prev_c, prev_acc, c_vals>>
           ELSE /\ c_estimate' =
                       NextEstimate(c_estimate, prev_acc, prev_c, curr_acc, curr_c)
                /\ c_vals' = Append(c_vals, curr_c)
                /\ prev_acc' = <<curr_acc>>
                /\ prev_c' = curr_c
                /\ idx' = idx + 1
                /\ pc' = "loop"
    /\ UNCHANGED <<df, kMed, c_pair, m_df, main_result>>
    /\ UNCHANGED <<sessVars, revision>>

\* The loop runs out of rows.
LoopExit ==
    /\ pc = "loop"
    /\ idx = Len(df)
    /\ pc' = "completed"
    /\ UNCHANGED <<df, idx, c_estimate, prev_c, prev_acc, c_vals, kMed, c_pair,
                   m_df, main_result>>
    /\ UNCHANGED <<sessVars, revision>>

---------------------------------------------------------------------------
(* validate_training_coherence: the threshold pair *)

\* test_data.py: the list reversed and cut to its first 20, the 20 most
\* recent trials.
LastTrialsOffByOne(vals) == Take(Reverse(vals), Window - 1)

LastTrials(vals) == Take(Reverse(vals), Window)

\* The list the median is taken over: output_test.py takes all of it.
MedianInput(rev, vals) == IF rev = "test_data" THEN LastTrials(vals) ELSE vals

\* Variant: the two bounds are assigned the wrong way round.
ClampSwapped(k) ==
    IF k < ClampLow THEN ClampHigh
    ELSE IF k > ClampHigh THEN ClampLow
    ELSE k

Clamp(k) ==
    IF k < ClampLow THEN ClampLow
    ELSE IF k > ClampHigh THEN ClampHigh
    ELSE k

\* kMed before the clamp: round(median, 4).
RawKMed(vals) == RoundHalfEven(Median2(vals), 2)

KLow(k) == RoundHalfEven(k, 2)

KHigh(k) == 2 * k

\* statistics.median raises StatisticsError on an empty list.
Aggregate ==
    /\ pc = "completed"
    /\ c_vals' = MedianInput(revision, c_vals)
    /\ IF c_vals' = <<>>
       THEN /\ pc' = "StatisticsError"
            /\ UNCHANGED <<kMed, c_pair>>
       ELSE /\ kMed' = Clamp(RawKMed(c_vals'))
            /\ c_pair' = <<KLow(kMed'), KHigh(kMed')>>
            /\ pc' = "returned"
    /\ UNCHANGED <<df, idx, c_estimate, prev_c, prev_acc, m_df, main_result>>
    /\ UNCHANGED <<sessVars, revision>>

---------------------------------------------------------------------------
(* validate_main_coherences *)

\* A coherence-pair label is a text "low_high".  It is held as the two
\* numbers it parses to and whether the text is the one str() gives for
\* them ("0.1_0.4") or another spelling of the same numbers ("0.10_0.40").
ParseLow(label) == label.low

ParseHigh(label) == label.high

\* "" + str(c_pair[0]) + "_" + str(c_pair[1])
PairText(pair) == [low |-> pair[1], high |-> pair[2], canonical |-> TRUE]

\* Variant: the label of the last record is the one compared.
ValidateMainCoherencesLastLabel(group, pair) ==
    IF group = <<>> THEN "IndexError"
    ELSE IF pair = None THEN "TypeError"
    ELSE LET last == group[Len(group)]
         IN  IF /\ Round2(ParseLow(last)) = Round2(pair[1])
                /\ Round2(ParseHigh(last)) = Round2(pair[2])
             THEN "Valid"
             ELSE "Invalid"

\* test_data.py: the outcome for a main group (its labels) and the pair of
\* the matching training group.
ValidateMainCoherences(group, pair) ==
    IF group = <<>> THEN "IndexError"
    ELSE IF pair = None THEN "TypeError"
    ELSE LET curr_c_low == Round2(ParseLow(group[1]))
             curr_c_high == Round2(ParseHigh(group[1]))
             c_val_low == Round2(pair[1])
             c_val_high == Round2(pair[2])
         IN  IF curr_c_low = c_val_low /\ curr_c_high = c_val_high
             THEN "Valid"
             ELSE "Invalid"

\* output_test.py: the label text is compared with the text of the pair.
ValidateMainCoherencesText(group, pair) ==
    IF group = <<>> THEN "IndexError"
    ELSE IF pair = None THEN "TypeError"
    ELSE IF PairText(pair) = group[1] THEN "Valid" ELSE "Invalid"

ValidateMainOf(rev, group, pair) ==
    IF rev = "test_data"
    THEN ValidateMainCoherences(group, pair)
    ELSE ValidateMainCoherencesText(group, pair)

Labels ==
    { [low |-> 1000, high |-> 4000, canonical |-> TRUE],
      [low |-> 1000, high |-> 4000, canonical |-> FALSE],
      [low |-> 1049, high |-> 3960, canonical |-> TRUE],
      [low |-> 1100, high |-> 4000, canonical |-> TRUE] }

MainGroups ==
    {<<>>} \cup {<<a>> : a \in Labels} \cup {<<a, b>> : a \in Labels, b \in Labels}

\* run_results hands the main group and whatever the training call returned
\* to validate_main_coherences.
ValidateMain ==
    /\ pc \in {"failed", "returned"}
    /\ main_result = "pending"
    /\ \E group \in MainGroups :
          /\ m_df' = group
          /\ main_result' = ValidateMainOf(revision, group, c_pair)
    /\ UNCHANGED <<df, idx, c_estimate, prev_c, prev_acc, c_vals, kMed, c_pair, pc>>
    /\ UNCHANGED <<sessVars, revision>>

---------------------------------------------------------------------------
(* The replay as a function of the group, for the properties below *)

\* c_estimate after the first n rows of the group have been validated.
RECURSIVE EstimateAfter(_, _)
EstimateAfter(group, n) ==
    IF n = 0 THEN InitEstimate
    ELSE NextEstimate(EstimateAfter(group, n - 1),
                      IF n = 1 THEN None ELSE <<group[n - 1].correct_selection>>,
                      IF n = 1 THEN InitEstimate ELSE group[n - 1].coherence,
                      group[n].correct_selection,
                      group[n].coherence)

\* Whether row k + 1 (index k counted from 0) carries the predicted coherence.
Matches(group, k) == group[k + 1].coherence = EstimateAfter(group, k)

\* The index, counted from 0, of the first row whose recorded coherence is
\* not the predicted one; Len(group) when there is none.
FirstMismatch(group) ==
    LET bad == {k \in 0..(Len(group) - 1) : ~Matches(group, k)}
    IN  IF bad = {} THEN Len(group)
        ELSE CHOOSE k \in bad : \A j \in bad : k <= j

RecordedCoherences(group, n) == [i \in 1..n |-> group[i].coherence]

---------------------------------------------------------------------------
(* run_results: the selection of the groups *)

Phases == {"Training", "Main"}

Layouts == {"Binocular", "Monocular", "Lateralized"}

Fields == {"Left", "Right", "None"}

\* The trial_type "Training_Trials_Binocular" is held as
\* [phase |-> "Training", layout |-> "Binocular"].
TrialTypes == [phase : Phases, layout : Layouts]

\* The five categories of run_results, in the order it validates them.
Categories ==
    << [layout |-> "Binocular", field |-> "Any"],
       [layout |-> "Monocular", field |-> "Left"],
       [layout |-> "Monocular", field |-> "Right"],
       [layout |-> "Lateralized", field |-> "Left"],
       [layout |-> "Lateralized", field |-> "Right"] >>

\* Variant: the visual field alone decides the membership of a
\* monocular or lateralized group.
InGroupFieldOnly(r, phase, c) ==
    IF c = 0
    THEN r.trial_type.phase = phase
    ELSE /\ r.trial_type.phase = phase
         /\ \/ /\ Categories[c].field = "Any"
               /\ r.trial_type.layout = Categories[c].layout
            \/ r.active_visual_field = Categories[c].field

\* The mask of one selection: category 0 is the whole phase
\* (str.startswith), categories 1 to 5 compare trial_type and, except for
\* Binocular, active_visual_field.
InGroup(r, phase, c) ==
    IF c = 0
    THEN r.trial_type.phase = phase
    ELSE /\ r.trial_type = [phase |-> phase, layout |-> Categories[c].layout]
         /\ \/ Categories[c].field = "Any"
            \/ r.active_visual_field = Categories[c].field

\* results_df.loc[mask]: the positions, among the first n rows, of the rows
\* the mask keeps, in the order of the rows.
RECURSIVE Positions(_, _, _, _)
Positions(rows, phase, c, n) ==
    IF n = 0 THEN <<>>
    ELSE LET rest == Positions(rows, phase, c, n - 1)
         IN  IF InGroup(rows[n], phase, c) THEN Append(rest, n) ELSE rest

\* The twelve groups in the order of the accuracy block: the five training
\* groups, all training trials, the five main groups, all main trials.
GroupKeys ==
    [i \in 1..(2 * Len(Categories) + 2) |->
        LET n == Len(Categories) + 1
        IN  [phase |-> IF i <= n THEN "Training" ELSE "Main",
             cat |-> IF i % n = 0 THEN 0 ELSE i % n]]

KeyIndex(phase, c) ==
    LET n == Len(Categories) + 1
        k == IF c = 0 THEN n ELSE c
    IN  IF phase = "Training" THEN k ELSE n + k

SelectGroups(rows) ==
    [i \in 1..Len(GroupKeys) |->
        Positions(rows, GroupKeys[i].phase, GroupKeys[i].cat, Len(rows))]

GroupRows(rows, positions) == [i \in 1..Len(positions) |-> rows[positions[i]]]

GroupLabels(rows, positions) == [i \in 1..Len(positions) |-> rows[positions[i]].label]

---------------------------------------------------------------------------
(* run_results: the validations and the accuracies *)

\* validate_training_coherence as a function of the group: None after a
\* mismatch, StatisticsError for an empty group, otherwise the pair.
ValidateTrainingCoherence(rev, group) ==
    IF FirstMismatch(group) < Len(group)
    THEN [exc |-> "none", value |-> None]
    ELSE IF group = <<>>
    THEN [exc |-> "StatisticsError", value |-> None]
    ELSE LET vals == MedianInput(rev, RecordedCoherences(group, Len(group)))
             k == Clamp(RawKMed(vals))
         IN  [exc |-> "none", value |-> <<KLow(k), KHigh(k)>>]

\* round(correct / count * 100, 3), in units of 0.001 percent; on an empty
\* group the numpy division 0 / 0 gives nan.
Accuracy(group) ==
    IF group = <<>>
    THEN [kind |-> "nan", value |-> 0]
    ELSE LET correct == Cardinality({i \in 1..Len(group) : group[i].correct_selection})
         IN  [kind |-> "number",
              value |-> RoundHalfEven(100000 * correct, Len(group))]

\* The .loc selections of run_results; a session without the trial_type
\* column raises KeyError at the first of them.
RunResultsSelect ==
    /\ s_pc = "select"
    /\ IF ~results_df.has_trial_type
       THEN /\ s_pc' = "aborted"
            /\ exc' = "KeyError"
            /\ UNCHANGED <<groups, cat>>
       ELSE /\ groups' = SelectGroups(results_df.rows)
            /\ cat' = 1
            /\ s_pc' = "training"
            /\ UNCHANGED exc
    /\ UNCHANGED <<file_i, results_df, data_struct, output, pairs, main_results, accs>>
    /\ UNCHANGED <<catVars, revision>>

\* t_x_c_pair = validate_training_coherence(t_x_df, ...)
CallValidateTraining ==
    /\ s_pc = "training"
    /\ LET group == GroupRows(results_df.rows, groups[KeyIndex("Training", cat)])
           r == ValidateTrainingCoherence(revision, group)
       IN  IF r.exc # "none"
           THEN /\ s_pc' = "aborted"
                /\ exc' = r.exc
                /\ UNCHANGED pairs
           ELSE /\ pairs' = Append(pairs, r.value)
                /\ s_pc' = "main"
                /\ UNCHANGED exc
    /\ UNCHANGED <<file_i, results_df, data_struct, output, groups, cat,
                   main_results, accs>>
    /\ UNCHANGED <<catVars, revision>>

\* validate_main_coherences(m_x_df, ..., t_x_c_pair)
CallValidateMain ==
    /\ s_pc = "main"
    /\ LET group == GroupLabels(results_df.rows, groups[KeyIndex("Main", cat)])
           r == ValidateMainOf(revision, group, pairs[cat])
       IN  IF r \in {"IndexError", "TypeError"}
           THEN /\ s_pc' = "aborted"
                /\ exc' = r
                /\ UNCHANGED <<main_results, cat>>
           ELSE /\ main_results' = Append(main_results, r)
                /\ UNCHANGED exc
                /\ IF cat < Len(Categories)
                   THEN cat' = cat + 1 /\ s_pc' = "training"
                   ELSE cat' = cat /\ s_pc' = "accuracy"
    /\ UNCHANGED <<file_i, results_df, data_struct, output, groups, pairs, accs>>
    /\ UNCHANGED <<catVars, revision>>

\* The twelve accuracies.
ComputeAccuracy ==
    /\ s_pc = "accuracy"
    /\ accs' = [i \in 1..Len(GroupKeys) |->
                   Accuracy(GroupRows(results_df.rows, groups[i]))]
    /\ s_pc' = "return"
    /\ UNCHANGED <<file_i, results_df, data_struct, output, groups, cat, pairs,
                   main_results, exc>>
    /\ UNCHANGED <<catVars, revision>>

---------------------------------------------------------------------------
(* start: the batch *)

NoSession == [has_trial_type |-> TRUE, rows |-> <<>>]

StartInit ==
    /\ revision \in Revisions
    /\ file_i = 0
    /\ results_df = NoSession
    /\ data_struct = <<>>
    /\ output = None
    /\ s_pc = "read"
    /\ groups = <<>>
    /\ cat = 0
    /\ pairs = <<>>
    /\ main_results = <<>>
    /\ accs = <<>>
    /\ exc = "none"

CatIdle ==
    /\ ReplayInit(<<>>)
    /\ m_df = <<>>
    /\ main_result = "pending"

\* The sessions of the model: each category comes in one of five shapes.
CategoryVariants ==
    {"valid", "pair_mismatch", "replay_mismatch", "no_training", "no_main"}

TrainingVariant(v) ==
    IF v = "no_training" THEN <<>>
    ELSE IF v = "replay_mismatch"
    THEN << [correct_selection |-> FALSE, coherence |-> InitEstimate],
            [correct_selection |-> TRUE, coherence |-> ClampHigh] >>
    ELSE << [correct_selection |-> FALSE, coherence |-> InitEstimate],
            [correct_selection |-> TRUE, coherence |-> InitEstimate + Step] >>

MainVariant(v) ==
    IF v = "no_main" THEN <<>>
    ELSE IF v = "pair_mismatch"
    THEN << [low |-> 600, high |-> 2400, canonical |-> TRUE] >>
    ELSE << [low |-> 1025, high |-> 4100, canonical |-> TRUE] >>

NoLabel == [low |-> 0, high |-> 0, canonical |-> TRUE]

TrialRecord(phase, c, correct, coherence, label) ==
    [trial_type |-> [phase |-> phase, layout |-> Categories[c].layout],
     active_visual_field |->
         IF Categories[c].field = "Any" THEN "None" ELSE Categories[c].field,
     correct_selection |-> correct,
     coherence |-> coherence,
     label |-> label]

RECURSIVE Flatten(_)
Flatten(ss) == IF ss = <<>> THEN <<>> ELSE Head(ss) \o Flatten(Tail(ss))

\* The r-th training trial of every category that has one.
TrainingRound(v, r) ==
    Flatten([c \in 1..Len(Categories) |->
                LET t == TrainingVariant(v[c])
                IN  IF Len(t) >= r
                    THEN <<TrialRecord("Training", c, t[r].correct_selection,
                                       t[r].coherence, NoLabel)>>
                    ELSE <<>>])

MainRound(v) ==
    Flatten([c \in 1..Len(Categories) |->
                LET m == MainVariant(v[c])
                IN  IF m # <<>>
                    THEN <<TrialRecord("Main", c, TRUE, 0, m[1])>>
                    ELSE <<>>])

SessionRows(v) == TrainingRound(v, 1) \o TrainingRound(v, 2) \o MainRound(v)

Sessions ==
    {[has_trial_type |-> TRUE, rows |-> SessionRows(v)] :
        v \in [1..Len(Categories) -> CategoryVariants]}
    \cup {[has_trial_type |-> FALSE, rows |-> <<>>]}

\* results_df = pd.read_csv(file_path)
ReadCsv ==
    /\ s_pc = "read"
    /\ file_i < NumFiles
    /\ \E session \in Sessions : results_df' = session
    /\ s_pc' = "select"
    /\ UNCHANGED <<file_i, data_struct, output, groups, cat, pairs, main_results,
                   accs, exc>>
    /\ UNCHANGED <<catVars, revision>>

\* run_results returns its row; start gives it the id and appends it.
ReturnRow ==
    /\ s_pc = "return"
    /\ data_struct' = Append(data_struct, [id |-> file_i + 1, acc |-> accs, c |-> pairs])
    /\ file_i' = file_i + 1
    /\ groups' = <<>>
    /\ cat' = 0
    /\ pairs' = <<>>
    /\ main_results' = <<>>
    /\ accs' = <<>>
    /\ s_pc' = "read"
    /\ UNCHANGED <<results_df, output, exc>>
    /\ UNCHANGED <<catVars, revision>>

\* df_acc.to_csv("./output.csv")
WriteOutput ==
    /\ s_pc = "read"
    /\ file_i = NumFiles
    /\ output' = <<data_struct>>
    /\ s_pc' = "done"
    /\ UNCHANGED <<file_i, results_df, data_struct, groups, cat, pairs,
                   main_results, accs, exc>>
    /\ UNCHANGED <<catVars, revision>>

InitSession == StartInit /\ CatIdle

NextSession ==
    \/ ReadCsv
    \/ RunResultsSelect
    \/ CallValidateTraining
    \/ CallValidateMain
    \/ ComputeAccuracy
    \/ ReturnRow
    \/ WriteOutput

SpecSession == InitSession /\ [][NextSession]_vars

---------------------------------------------------------------------------
(* The selection alone, on arbitrary short sessions *)

ClassifierRecords ==
    {[trial_type |-> t, active_visual_field |-> f, correct_selection |-> TRUE,
      coherence |-> InitEstimate, label |-> NoLabel] :
        t \in TrialTypes, f \in Fields}

ShortSessions ==
    {[has_trial_type |-> TRUE, rows |-> r] : r \in SeqsUpTo(ClassifierRecords, MaxRecords)}
    \cup {[has_trial_type |-> FALSE, rows |-> <<>>]}

InitClassify ==
    /\ revision \in Revisions
    /\ file_i = 0
    /\ results_df \in ShortSessions
    /\ data_struct = <<>>
    /\ output = None
    /\ s_pc = "select"
    /\ groups = <<>>
    /\ cat = 0
    /\ pairs = <<>>
    /\ main_results = <<>>
    /\ accs = <<>>
    /\ exc = "none"
    /\ CatIdle

NextClassify == RunResultsSelect

SpecClassify == InitClassify /\ [][NextClassify]_vars

---------------------------------------------------------------------------
(* The threshold pair alone, on arbitrary coherence sequences *)

AggCoherences == {1000, InitEstimate, 6000}

InitAgg ==
    /\ df = <<>>
    /\ idx = 0
    /\ c_estimate = InitEstimate
    /\ prev_c = InitEstimate
    /\ prev_acc = None
    /\ c_vals \in SeqsUpTo(AggCoherences, MaxVals)
    /\ kMed = 0
    /\ c_pair = None
    /\ pc = "completed"
    /\ m_df = <<>>
    /\ main_result = "pending"
    /\ StartInit

NextAgg == Aggregate

SpecAgg == InitAgg /\ [][NextAgg]_vars

---------------------------------------------------------------------------
(* One category of run_results: a training group, then its main group *)

Coherences == {InitEstimate - Step, InitEstimate, InitEstimate + Step, ClampHigh}

Rows == [correct_selection : BOOLEAN, coherence : Coherences]

TrainingGroups == SeqsUpTo(Rows, MaxTrials)

Init ==
    /\ \E group \in TrainingGroups : ReplayInit(group)
    /\ m_df = <<>>
    /\ main_result = "pending"
    /\ StartInit

Next ==
    \/ IterRow
    \/ LoopExit
    \/ Aggregate
    \/ ValidateMain

Spec == Init /\ [][Next]_vars

---------------------------------------------------------------------------
(* Properties of the staircase replay *)

\* C1: once the loop has ended, a group with no mismatch is Completed with
\* one collected coherence per row, and a group whose first mismatch is at
\* index k is Failed at k with exactly the k coherences before it collected;
\* nothing is validated or appended afterwards.
C1_ReplayOutcome ==
    LET k == FirstMismatch(df)
    IN  /\ pc = "completed" =>
              /\ k = Len(df)
              /\ idx = Len(df)
              /\ c_vals = RecordedCoherences(df, Len(df))
        /\ pc = "failed" =>
              /\ k < Len(df)
              /\ idx = k
              /\ c_vals = RecordedCoherences(df, k)
              /\ c_pair = None
        /\ pc \in {"returned", "StatisticsError"} => k = Len(df)
        /\ pc = "loop" => idx <= k /\ Len(c_vals) = idx

C1_Witness ==
    /\ pc = "failed"
    /\ idx = 2
    /\ Len(df) = 4
    /\ main_result # "pending"

\* C2: one validated row moves the estimate up by 0.01 when incorrect, down
\* by 0.01 when correct after a correct row of the same recorded coherence,
\* and not at all when correct otherwise.
C2_StepRule ==
    [][(pc = "loop" /\ idx' = idx + 1) =>
          LET row == df[idx + 1]
              repeat == /\ idx >= 1
                        /\ df[idx].correct_selection
                        /\ df[idx].coherence = row.coherence
          IN  /\ ~row.correct_selection => c_estimate' = c_estimate + 100
              /\ (row.correct_selection /\ repeat) => c_estimate' = c_estimate - 100
              /\ (row.correct_selection /\ ~repeat) => c_estimate' = c_estimate]_vars

C2_Witness ==
    /\ pc = "loop"
    /\ idx = 3
    /\ ~df[1].correct_selection
    /\ df[2].correct_selection
    /\ df[3].correct_selection
    /\ c_estimate = InitEstimate

\* C3: after a failed replay no pair exists and the main group's check is
\* skipped with the outcome "no reference available".
C3_NoReference ==
    (pc = "failed" /\ m_df # <<>> /\ main_result # "pending") =>
        (c_pair = None /\ main_result = "NoReference")

RoundedSame(label, pair) ==
    /\ Round2(ParseLow(label)) = Round2(pair[1])
    /\ Round2(ParseHigh(label)) = Round2(pair[2])

\* C7 as stated: for a non-empty main group and a computed pair the outcome
\* is Valid exactly when the first record's label, rounded to 2 decimals, is
\* the computed pair rounded to 2 decimals, and Invalid otherwise, whatever
\* the later records carry.
C7_FirstLabelDecides ==
    (main_result # "pending" /\ m_df # <<>> /\ c_pair # None) =>
        /\ main_result \in {"Valid", "Invalid"}
        /\ main_result = "Valid" <=> RoundedSame(m_df[1], c_pair)

\* C7 as amended: the first record's label alone decides; in test_data.py
\* the outcome is Valid exactly when label and pair agree after rounding to
\* 2 decimals, in output_test.py exactly when the label is the text
\* str(low) + "_" + str(high) of the pair.
C7_FirstLabelDecidesByRevision ==
    (main_result # "pending" /\ m_df # <<>> /\ c_pair # None) =>
        /\ main_result \in {"Valid", "Invalid"}
        /\ revision = "test_data" =>
              (main_result = "Valid" <=> RoundedSame(m_df[1], c_pair))
        /\ revision = "output_test" =>
              (main_result = "Valid" <=>
                  (/\ m_df[1].canonical
                   /\ ParseLow(m_df[1]) = c_pair[1]
                   /\ ParseHigh(m_df[1]) = c_pair[2]))

C7_Witness ==
    /\ revision = "test_data"
    /\ main_result = "Valid"
    /\ Len(m_df) = 2
    /\ ParseLow(m_df[1]) # c_pair[1]
    /\ ~RoundedSame(m_df[2], c_pair)

---------------------------------------------------------------------------
(* Properties of run_results and start *)

LeafIndexes == {i \in 1..Len(GroupKeys) : GroupKeys[i].cat # 0}

Members(positions) == {positions[k] : k \in 1..Len(positions)}

\* C4: a failure in one category (replay mismatch, pair mismatch, empty
\* group) never aborts the session: a session with the expected columns is
\* processed to its summary, every category validated.
C4_FailuresNeverAbort ==
    /\ s_pc = "aborted" => exc = "KeyError"
    /\ s_pc = "return" =>
          /\ Len(pairs) = Len(Categories)
          /\ Len(main_results) = Len(Categories)

\* C5: a session with a schema mismatch does not abort the run, and the
\* table written at the end has one row per input session.
C5_SchemaMismatchKeepsBatch ==
    /\ exc = "KeyError" => s_pc # "aborted"
    /\ s_pc = "done" => (output # None /\ Len(output[1]) = NumFiles)

\* C6: the accuracy of a non-empty group is a percentage in [0, 100]; for a
\* session with an empty group the processing still ends with the
\* accuracies computed, the empty group's one being "undefined".
C6_AccuracyDefinedOrUndefined ==
    /\ accs # <<>> =>
          \A i \in 1..Len(GroupKeys) :
              groups[i] # <<>> =>
                  (accs[i].kind = "number" /\ accs[i].value \in 0..100000)
    /\ (/\ s_pc \in {"return", "aborted"}
        /\ groups # <<>>
        /\ \E i \in 1..Len(GroupKeys) : groups[i] = <<>>) =>
          /\ accs # <<>>
          /\ \A i \in 1..Len(GroupKeys) :
                groups[i] = <<>> => accs[i].kind = "undefined"

\* C9: no row of the session is in more than one leaf group, and every leaf
\* group lists rows of the session in the order of the session.
C9_LeafGroupsPartition ==
    groups # <<>> =>
        /\ \A n \in 1..Len(results_df.rows) :
              Cardinality({i \in LeafIndexes : n \in Members(groups[i])}) <= 1
        /\ \A i \in LeafIndexes :
              /\ Members(groups[i]) \subseteq 1..Len(results_df.rows)
              /\ \A j, k \in 1..Len(groups[i]) :
                    j < k => groups[i][j] < groups[i][k]

C9_Witness ==
    /\ groups # <<>>
    /\ \E i, j \in LeafIndexes :
          /\ i # j
          /\ groups[i] = <<1, 3>>
          /\ groups[j] = <<2>>

\* C10: clamping the clamped kMed changes nothing, the pair encloses kMed,
\* and the sequence [0.1, 0.1, 0.6, 0.1] (test_data.py holds it reversed
\* once the pair is computed) gives kMed 0.12 and the pair (0.06, 0.24).
C10_ClampAndPair ==
    pc = "returned" =>
        /\ Clamp(kMed) = kMed
        /\ c_pair[1] <= kMed
        /\ kMed <= c_pair[2]
        /\ c_vals \in {<<1000, 1000, 6000, 1000>>, <<1000, 6000, 1000, 1000>>} =>
              (kMed = 1200 /\ c_pair = <<600, 2400>>)

C10_Witness ==
    /\ pc = "returned"
    /\ revision = "test_data"
    /\ c_vals = <<1000, 6000, 1000, 1000>>
    /\ kMed = ClampLow

---------------------------------------------------------------------------
(* Long calibration runs *)

\* The coherence the task records on trial i of a run that opens with
\* `misses` incorrect responses and goes on with correct ones: 0.01 up after
\* each miss, then 0.01 down after every second correct response.
RunCoherence(misses, i) ==
    IF i <= misses + 1
    THEN InitEstimate + Step * (i - 1)
    ELSE InitEstimate + Step * misses - Step * ((i - misses - 1) \div 2)

RunGroup(misses, n) ==
    [i \in 1..n |-> [correct_selection |-> i > misses,
                     coherence |-> RunCoherence(misses, i)]]

LongGroups ==
    {RunGroup(misses, n) : misses \in 0..MaxMisses, n \in (Window - 1)..MaxLong}

\* One training group, short and arbitrary or long and as recorded, through
\* validate_training_coherence.
InitLong ==
    /\ \E group \in TrainingGroups \cup LongGroups : ReplayInit(group)
    /\ m_df = <<>>
    /\ main_result = "pending"
    /\ StartInit

NextLong ==
    \/ IterRow
    \/ LoopExit
    \/ Aggregate

SpecLong == InitLong /\ [][NextLong]_vars

---------------------------------------------------------------------------
(* Properties of long replays *)

\* A group of correct responses only, recorded as the staircase sets them.
AllCorrectRun(group) ==
    \A i \in 1..Len(group) :
        /\ group[i].correct_selection
        /\ group[i].coherence = InitEstimate - Step * ((i - 1) \div 2)

\* C11: the estimate is never lowered on the first trial nor on the trial
\* after one that lowered it; after n validated trials it is between
\* 0.2 - 0.01 * floor(n / 2) and 0.2 + 0.01 * n; and a run of correct
\* responses is never rejected, however low its coherence gets.
C11_EstimateBounds ==
    /\ [](/\ c_estimate >= 2000 - 100 * (idx \div 2)
          /\ c_estimate <= 2000 + 100 * idx
          /\ AllCorrectRun(df) => pc # "failed")
    /\ [][c_estimate' < c_estimate =>
             (idx >= 1 /\ c_estimate >= c_vals[idx])]_vars

C11_Witness ==
    /\ pc = "completed"
    /\ AllCorrectRun(df)
    /\ Len(c_vals) >= 43
    /\ c_vals[41] = 0
    /\ c_vals[Len(c_vals)] < 0
    /\ c_estimate < 0

\* The pair either revision returns for the coherences it takes the median of.
ThresholdPair(vals) ==
    LET k == Clamp(RawKMed(vals))
    IN  <<KLow(k), KHigh(k)>>

OtherRevision(rev) == IF rev = "test_data" THEN "output_test" ELSE "test_data"

\* C12: for a Completed replay of at most 20 trials, the pair returned by the
\* revision that ran is the pair the other revision computes from the same
\* validated coherences; the two can differ only beyond 20 trials.
C12_RevisionsAgreeUpToWindow ==
    (pc = "returned" /\ idx <= 20) =>
        c_pair = ThresholdPair(MedianInput(OtherRevision(revision),
                                           RecordedCoherences(df, idx)))

C12_Witness ==
    /\ pc = "returned"
    /\ revision = "test_data"
    /\ idx = 20
    /\ Len(c_vals) = 20
    /\ c_vals[1] # c_vals[20]
    /\ kMed > ClampLow
    /\ c_pair # ThresholdPair(SubSeq(RecordedCoherences(df, idx), 2, 20))

====
